---- MODULE Spec2Model ----
(***************************************************************************)
(* Model of the /doi skill: the diff analyzer                              *)
(* (src/doi/analyzer/summarize.ts) and the vibe debt storage               *)
(* (src/doi/storage/vibedebt.ts).  Every function is pure; each is an      *)
(* operator computed the way the code computes it.  A specification draws  *)
(* the inputs of one function, or of one chain of calls, from bounded sets *)
(* and its actions apply the functions.                                    *)
(*                                                                         *)
(* Paths, branch names, messages and JSON texts are TLA+ strings; the      *)
(* regular expressions of the source are evaluated character by character  *)
(* with Len, SubSeq and \o.  A score is a JavaScript number: an IEEE 754   *)
(* binary64 value, multiplied with the rounding of the hardware.  A stored *)
(* record is a JavaScript value, written by JSON.stringify and read back   *)
(* by JSON.parse.                                                          *)
(***************************************************************************)
EXTENDS Integers, Sequences, FiniteSets, TLC

VARIABLES
    files,          \* diff.files : sequence of ChangedFile
    limit,          \* second argument of identifyKeyFiles
    currentBranch,  \* diff.context.currentBranch
    commits,        \* diff.commits : sequence of commit messages, newest first
    pc,             \* "input" before the call, the function's name after it
    changes,        \* value returned by categorizeChanges
    keyFiles,       \* value returned by identifyKeyFiles
    scored,         \* identifyKeyFiles' local array of {file, score}, sorted in place
    intent,         \* value returned by inferIntent
    stats,          \* diff.stats : linesAdded and linesRemoved of the whole diff
    overview,       \* value returned by generateOverview
    summary,        \* value returned by generateDiffSummary
    previous,       \* value returned by the call of generateDiffSummary before
    branch,         \* branchName given to generateFilename / createVibeDebtRecord
    date,           \* the Date given to generateFilename, or read by new Date()
    results,        \* QuestionResult[] given to createVibeDebtRecord
    quizStats,      \* QuizStats given to createVibeDebtRecord
    filename,       \* value returned by generateFilename
    record,         \* value returned by createVibeDebtRecord
    json,           \* value returned by serializeRecord
    parsed,         \* value returned by parseRecord
    error,          \* message of the Error parseRecord threw, "" when none
    warning         \* text parseRecord gave to console.warn, "" when none

analyzerVars == <<files, limit, currentBranch, commits, changes, keyFiles, scored, intent>>

summaryVars == <<stats, overview, summary, previous>>

storageVars ==
    <<branch, date, results, quizStats, filename, record, json, parsed, error, warning>>

vars == <<pc, analyzerVars, summaryVars, storageVars>>

\* the values of the variables a specification does not use
NoStats == [linesAdded |-> 0, linesRemoved |-> 0]

NoDate == [year |-> 1970, month |-> 1, day |-> 1]

SummaryUnused ==
    /\ stats = NoStats
    /\ overview = ""
    /\ summary = <<>>
    /\ previous = <<>>

StorageUnused ==
    /\ branch = ""
    /\ date = NoDate
    /\ results = <<>>
    /\ quizStats = <<>>
    /\ filename = ""
    /\ record = <<>>
    /\ json = ""
    /\ parsed = <<>>
    /\ error = ""
    /\ warning = ""

(***************************************************************************)
(* Bounds of the model.                                                    *)
(***************************************************************************)
MaxFiles == 3
MaxLimit == 3
MaxCommits == 2
MaxResults == 2
MaxBranchLen == 4

(***************************************************************************)
(* String helpers: what RegExp.prototype.test does for the literal,        *)
(* anchored and case-insensitive patterns the source uses.                 *)
(***************************************************************************)
Min(a, b) == IF a < b THEN a ELSE b
Max(a, b) == IF a > b THEN a ELSE b

CharAt(s, i) == SubSeq(s, i, i)

\* s has the literal lit starting at position i
MatchAt(s, lit, i) ==
    /\ i >= 1
    /\ i + Len(lit) - 1 <= Len(s)
    /\ SubSeq(s, i, i + Len(lit) - 1) = lit

\* /lit/ : lit occurs somewhere in s
Contains(s, lit) == \E i \in 1..Len(s) : MatchAt(s, lit, i)

\* /lit$/ : s ends with lit
EndsWith(s, lit) == MatchAt(s, lit, Len(s) - Len(lit) + 1)

\* the function whose graph is the given set of pairs <<argument, value>>,
\* every value computed when the function is built
RECURSIVE FunctionOf(_)
FunctionOf(graph) ==
    IF graph = {} THEN <<>>
    ELSE LET pair == CHOOSE pr \in graph : TRUE
         IN  (pair[1] :> pair[2]) @@ FunctionOf(graph \ {pair})

UpperCase == "ABCDEFGHIJKLMNOPQRSTUVWXYZ"
LowerCase == "abcdefghijklmnopqrstuvwxyz"

UpperChars == {CharAt(UpperCase, i) : i \in 1..Len(UpperCase)}
LowerOf == [c \in UpperChars |->
              CharAt(LowerCase, CHOOSE i \in 1..Len(UpperCase) : CharAt(UpperCase, i) = c)]

LowerChar(c) == IF c \in UpperChars THEN LowerOf[c] ELSE c

RECURSIVE toLowerCase(_)
toLowerCase(s) ==
    IF Len(s) = 0 THEN ""
    ELSE LowerChar(CharAt(s, 1)) \o toLowerCase(SubSeq(s, 2, Len(s)))

(***************************************************************************)
(* FILE_PATTERNS, one operator per category, one disjunct per RegExp in    *)
(* the order of the table.                                                 *)
(***************************************************************************)
ConfigurationPattern(p) ==
    LET lower == toLowerCase(p) IN
    \/ \E e \in {"js", "ts", "json", "yaml", "yml"} : EndsWith(p, ".config." \o e)
    \/ EndsWith(p, "package.json")
    \/ \E i \in 1..Len(p) :                       \* /tsconfig.*\.json$/
          /\ MatchAt(p, "tsconfig", i)
          /\ EndsWith(p, ".json")
          /\ Len(p) - Len(".json") + 1 >= i + Len("tsconfig")
    \/ EndsWith(p, ".env")                        \* /\.env(\..+)?$/
    \/ \E i \in 1..Len(p) : MatchAt(p, ".env.", i) /\ i + Len(".env.") <= Len(p)
    \/ \E w \in {"webpack", "rollup", "vite", "esbuild"} : Contains(lower, w)   \* /i
    \/ \E w \in {"docker", "compose"} : Contains(lower, w)                      \* /i
    \/ Contains(p, ".github/")
    \/ EndsWith(p, "Makefile")
    \/ EndsWith(p, ".yml")
    \/ EndsWith(p, ".yaml")

TestingPattern(p) ==
    \/ \E k \in {"test", "spec"}, e \in {"js", "ts", "jsx", "tsx"} :
          EndsWith(p, "." \o k \o "." \o e)
    \/ \E k \in {"tests", "mocks"} : Contains(p, "__" \o k \o "__/")
    \/ Contains(p, ".test.")
    \/ Contains(p, ".spec.")
    \/ Contains(p, "test/")
    \/ Contains(p, "tests/")
    \/ Contains(p, "jest.config")
    \/ Contains(p, "vitest.config")

DocumentationPattern(p) ==
    LET lower == toLowerCase(p) IN
    \/ EndsWith(p, ".md")
    \/ EndsWith(p, ".mdx")
    \/ Contains(p, "doc/") \/ Contains(p, "docs/")     \* /docs?\//
    \/ Contains(lower, "readme")          \* /README/i
    \/ Contains(lower, "changelog")       \* /CHANGELOG/i
    \/ Contains(lower, "license")         \* /LICENSE/i
    \/ Contains(lower, "contributing")    \* /CONTRIBUTING/i

\* Object.entries(FILE_PATTERNS): the keys in declaration order
PatternCategories ==
    <<"configuration", "testing", "documentation",
      "new-feature", "modified-logic", "refactoring", "deletion">>

Matches(category, p) ==
    CASE category = "configuration" -> ConfigurationPattern(p)
      [] category = "testing"       -> TestingPattern(p)
      [] category = "documentation" -> DocumentationPattern(p)
      [] OTHER                      -> FALSE      \* empty pattern list

NoCategory == "null"

\* the nested loops of categorizeFileByPath from table entry i on
RECURSIVE FirstMatchFrom(_, _)
FirstMatchFrom(i, filePath) ==
    IF i > Len(PatternCategories) THEN NoCategory
    ELSE IF Matches(PatternCategories[i], filePath) THEN PatternCategories[i]
    ELSE FirstMatchFrom(i + 1, filePath)

\* every path a specification below gives to the analyzer
AllPaths ==
    {"src/x.ts", "src/app.test.ts", "README.md", "package.json", "jest.config.ts",
     "notes.txt", "src/x.test.ts", "vite.config.ts",
     "src/a.ts", "src/b.ts", "lib/c.py", "src/y.ts"}

\* categorizeFileByPath over AllPaths, computed once
FirstMatch(p) == FirstMatchFrom(1, p)

PathCategoryTable == FunctionOf({<<p, FirstMatch(p)>> : p \in AllPaths})

\* the first category of the table one of whose patterns matches, else null
categorizeFileByPath(filePath) ==
    IF filePath \in AllPaths THEN PathCategoryTable[filePath]
    ELSE FirstMatch(filePath)

categorizeChange_TypeFirst(file) ==
    CASE file.changeType = "added"   -> "new-feature"
      [] file.changeType = "deleted" -> "deletion"
      [] file.changeType = "renamed" -> "refactoring"
      [] OTHER -> IF categorizeFileByPath(file.path) # NoCategory
                  THEN categorizeFileByPath(file.path)
                  ELSE "modified-logic"

categorizeChange_RenamedAsModified(file) ==
    LET pathCategory == categorizeFileByPath(file.path) IN
    IF pathCategory # NoCategory THEN pathCategory
    ELSE CASE file.changeType = "added"   -> "new-feature"
           [] file.changeType = "deleted" -> "deletion"
           [] OTHER                       -> "modified-logic"

categorizeChange(file) ==
    LET pathCategory == categorizeFileByPath(file.path) IN
    IF pathCategory # NoCategory THEN pathCategory
    ELSE CASE file.changeType = "added"   -> "new-feature"
           [] file.changeType = "deleted" -> "deletion"
           [] file.changeType = "renamed" -> "refactoring"
           [] OTHER                       -> "modified-logic"

(***************************************************************************)
(* categorizeChanges: group in a Map (insertion order), one entry per      *)
(* group, then Array.prototype.sort by categoryOrder (a stable sort).      *)
(***************************************************************************)
categoryOrder ==
    <<"new-feature", "modified-logic", "refactoring", "deletion",
      "configuration", "testing", "documentation">>

\* Array.prototype.indexOf, 0-based, -1 when absent
indexOf(seq, x) ==
    IF \E i \in 1..Len(seq) : seq[i] = x
    THEN (CHOOSE i \in 1..Len(seq) : seq[i] = x /\ \A j \in 1..(i - 1) : seq[j] # x) - 1
    ELSE -1

\* the Map after the grouping loop: a sequence of [category, files] in
\* first-insertion order
PushGrouped_Overwrite(grouped, category, file) ==
    LET withKey == IF \E i \in 1..Len(grouped) : grouped[i].category = category
                   THEN grouped
                   ELSE Append(grouped, [category |-> category, files |-> <<>>])
    IN  [i \in 1..Len(withKey) |->
            IF withKey[i].category = category
            THEN [withKey[i] EXCEPT !.files = <<file>>]
            ELSE withKey[i]]

\* grouped.has(category) || grouped.set(category, []); grouped.get(category).push(file)
PushGrouped(grouped, category, file) ==
    LET withKey == IF \E i \in 1..Len(grouped) : grouped[i].category = category
                   THEN grouped
                   ELSE Append(grouped, [category |-> category, files |-> <<>>])
    IN  [i \in 1..Len(withKey) |->
            IF withKey[i].category = category
            THEN [withKey[i] EXCEPT !.files = Append(@, file)]
            ELSE withKey[i]]

RECURSIVE GroupFiles(_, _)
GroupFiles(fs, grouped) ==
    IF fs = <<>> THEN grouped
    ELSE GroupFiles(Tail(fs), PushGrouped(grouped, categorizeChange(Head(fs)), Head(fs)))

\* insert x behind every element that does not compare greater (stable)
RECURSIVE InsertByOrder(_, _)
InsertByOrder(sorted, x) ==
    IF sorted = <<>> THEN <<x>>
    ELSE IF indexOf(categoryOrder, Head(sorted).category)
              - indexOf(categoryOrder, x.category) > 0
         THEN <<x>> \o sorted
         ELSE <<Head(sorted)>> \o InsertByOrder(Tail(sorted), x)

RECURSIVE SortByCategoryOrder(_, _)
SortByCategoryOrder(todo, sorted) ==
    IF todo = <<>> THEN sorted
    ELSE SortByCategoryOrder(Tail(todo), InsertByOrder(sorted, Head(todo)))

(***************************************************************************)
(* generateCategoryDescription.                                            *)
(***************************************************************************)
\* a reduce that does not accumulate
SumLines_FirstOnly(fs, field) == IF fs = <<>> THEN 0 ELSE fs[1][field]

RECURSIVE SumLines(_, _)
SumLines(fs, field) ==
    IF fs = <<>> THEN 0 ELSE fs[1][field] + SumLines(Tail(fs), field)

generateCategoryDescription(category, fs) ==
    LET fileCount    == Len(fs)
        totalAdded   == SumLines(fs, "linesAdded")
        totalRemoved == SumLines(fs, "linesRemoved")
        plural       == IF fileCount > 1 THEN "s" ELSE ""
        someAdded    == \E i \in 1..Len(fs) : fs[i].changeType = "added"
        count        == ToString(fileCount) \o " file" \o plural
        count_new    == ToString(fileCount) \o " new file" \o plural
    IN  CASE category = "new-feature" ->
               "Added " \o count_new \o " (+" \o ToString(totalAdded) \o " lines)"
          [] category = "modified-logic" ->
               "Modified logic in " \o count \o " (+" \o ToString(totalAdded)
                   \o "/-" \o ToString(totalRemoved) \o " lines)"
          [] category = "refactoring" -> "Refactored/renamed " \o count
          [] category = "deletion" ->
               "Removed " \o count \o " (-" \o ToString(totalRemoved) \o " lines)"
          [] category = "configuration" -> "Updated configuration in " \o count
          [] category = "testing" ->
               (IF fileCount > 1 THEN "Tests" ELSE "Test") \o " "
                   \o (IF someAdded THEN "added" ELSE "modified")
                   \o " (+" \o ToString(totalAdded) \o "/-" \o ToString(totalRemoved)
                   \o " lines)"
          [] category = "documentation" ->
               "Documentation " \o (IF someAdded THEN "added" ELSE "updated")
          [] OTHER -> "Changed " \o count

\* the CategorizedChange array built from the Map, in the Map's order
ToCategorizedChanges(grouped) ==
    [i \in 1..Len(grouped) |->
        [category    |-> grouped[i].category,
         description |-> generateCategoryDescription(grouped[i].category,
                                                     grouped[i].files),
         files       |-> [j \in 1..Len(grouped[i].files) |-> grouped[i].files[j].path]]]

categorizeChanges_Unsorted(fs) == ToCategorizedChanges(GroupFiles(fs, <<>>))

categorizeChanges(fs) ==
    SortByCategoryOrder(ToCategorizedChanges(GroupFiles(fs, <<>>)), <<>>)

(***************************************************************************)
(* Inputs of categorizeChanges.                                            *)
(***************************************************************************)
\* the four change types of ChangedFile and one value outside them
ChangeTypes == {"added", "modified", "deleted", "renamed", "copied"}

\* no pattern; testing; documentation; configuration; configuration and testing
CatPaths ==
    {"src/x.ts", "src/app.test.ts", "README.md", "package.json", "jest.config.ts"}

CatFiles ==
    [path : CatPaths, changeType : ChangeTypes, linesAdded : {1}, linesRemoved : {0}]

HasPath(fs, p) == \E i \in 1..Len(fs) : fs[i].path = p

\* no path occurs twice (a diff has one entry per path)
DistinctPaths(fs) == \A i, j \in 1..Len(fs) : i < j => fs[i].path # fs[j].path

\* the sequences of at most n of the given files with distinct paths
FileLists(n, candidates) ==
    UNION {{fs \in [1..k -> candidates] : DistinctPaths(fs)} : k \in 0..n}

DefaultLimit == 5

InitCategorize ==
    /\ files \in FileLists(MaxFiles, CatFiles)
    /\ limit = DefaultLimit
    /\ currentBranch = "main"
    /\ commits = <<>>
    /\ pc = "input"
    /\ changes = <<>>
    /\ keyFiles = <<>>
    /\ scored = <<>>
    /\ intent = ""
    /\ SummaryUnused
    /\ StorageUnused

CategorizeChanges ==
    /\ pc = "input"
    /\ changes' = categorizeChanges(files)
    /\ pc' = "categorizeChanges"
    /\ UNCHANGED <<files, limit, currentBranch, commits, keyFiles, scored, intent>>
    /\ UNCHANGED <<summaryVars, storageVars>>

SpecCategorize == InitCategorize /\ [][CategorizeChanges]_vars

(***************************************************************************)
(* The number type: an IEEE 754 binary64 value >= 0 is mant * 2^exp, kept  *)
(* normalised (mant of exactly MantissaBits bits, or zero) so that equal   *)
(* numbers are equal records.  mant is a natural number written as a       *)
(* sequence of limbs, least significant first, without leading zeros.      *)
(* A product is computed exactly and then rounded to nearest, ties to      *)
(* even, as the hardware does.                                             *)
(***************************************************************************)
MantissaBits == 53
LimbBits == 15
LimbBase == 2 ^ LimbBits

RECURSIVE Trim(_)
Trim(a) ==
    IF a = <<>> THEN <<>>
    ELSE IF a[Len(a)] = 0 THEN Trim(SubSeq(a, 1, Len(a) - 1)) ELSE a

RECURSIVE BigFromInt(_)
BigFromInt(n) ==
    IF n = 0 THEN <<>> ELSE <<n % LimbBase>> \o BigFromInt(n \div LimbBase)

RECURSIVE BigAddCarry(_, _, _)
BigAddCarry(a, b, carry) ==
    IF a = <<>> /\ b = <<>> THEN (IF carry = 0 THEN <<>> ELSE <<carry>>)
    ELSE LET x == IF a = <<>> THEN 0 ELSE Head(a)
             y == IF b = <<>> THEN 0 ELSE Head(b)
             t == x + y + carry
         IN  <<t % LimbBase>>
                 \o BigAddCarry(IF a = <<>> THEN <<>> ELSE Tail(a),
                                IF b = <<>> THEN <<>> ELSE Tail(b), t \div LimbBase)

BigAdd(a, b) == BigAddCarry(a, b, 0)

RECURSIVE BigMulLimb(_, _, _)
BigMulLimb(a, d, carry) ==
    IF a = <<>> THEN (IF carry = 0 THEN <<>> ELSE <<carry>>)
    ELSE LET t == Head(a) * d + carry
         IN  <<t % LimbBase>> \o BigMulLimb(Tail(a), d, t \div LimbBase)

RECURSIVE BigMul(_, _)
BigMul(a, b) ==
    IF a = <<>> \/ b = <<>> THEN <<>>
    ELSE Trim(BigAdd(BigMulLimb(b, Head(a), 0), <<0>> \o BigMul(Tail(a), b)))

\* quotient of a by the small number d, a given most significant limb first
RECURSIVE DivFromTop(_, _, _)
DivFromTop(top, d, rem) ==
    IF top = <<>> THEN <<>>
    ELSE LET t == rem * LimbBase + Head(top)
         IN  <<t \div d>> \o DivFromTop(Tail(top), d, t % d)

RECURSIVE ModFromTop(_, _, _)
ModFromTop(top, d, rem) ==
    IF top = <<>> THEN rem
    ELSE ModFromTop(Tail(top), d, (rem * LimbBase + Head(top)) % d)

Flip(a) == [i \in 1..Len(a) |-> a[Len(a) + 1 - i]]

BigDivSmall(a, d) == Trim(Flip(DivFromTop(Flip(a), d, 0)))
BigModSmall(a, d) == ModFromTop(Flip(a), d, 0)

RECURSIVE SmallBitLen(_)
SmallBitLen(n) == IF n = 0 THEN 0 ELSE 1 + SmallBitLen(n \div 2)

BitLen(a) ==
    IF a = <<>> THEN 0 ELSE LimbBits * (Len(a) - 1) + SmallBitLen(a[Len(a)])

\* bit i of a, bit 0 the least significant
Bit(a, i) ==
    IF i \div LimbBits + 1 > Len(a) THEN 0
    ELSE (a[i \div LimbBits + 1] \div (2 ^ (i % LimbBits))) % 2

\* floor(a / 2^k)
ShiftRight(a, k) ==
    LET rest == SubSeq(a, k \div LimbBits + 1, Len(a))
        s    == k % LimbBits
    IN  Trim([i \in 1..Len(rest) |->
                 (rest[i] \div (2 ^ s))
                 + (IF i < Len(rest) THEN (rest[i + 1] % (2 ^ s)) * (2 ^ (LimbBits - s))
                    ELSE 0)])

\* a * 2^k
ShiftLeft(a, k) ==
    LET s == k % LimbBits
        wide == [i \in 1..(Len(a) + 1) |->
                    (IF i <= Len(a) THEN (a[i] % (2 ^ (LimbBits - s))) * (2 ^ s) ELSE 0)
                    + (IF i > 1 THEN a[i - 1] \div (2 ^ (LimbBits - s)) ELSE 0)]
    IN  Trim([i \in 1..(k \div LimbBits) |-> 0] \o wide)

\* a < b
RECURSIVE BigLessFromTop(_, _)
BigLessFromTop(a, b) ==
    IF a = <<>> THEN FALSE
    ELSE IF a[Len(a)] # b[Len(b)] THEN a[Len(a)] < b[Len(b)]
    ELSE BigLessFromTop(SubSeq(a, 1, Len(a) - 1), SubSeq(b, 1, Len(b) - 1))

BigLess(a, b) ==
    IF Len(a) # Len(b) THEN Len(a) < Len(b) ELSE BigLessFromTop(a, b)

\* the record of the number mant * 2^exp, mant <= 2^MantissaBits
Number(mant, exp) ==
    IF mant = <<>> THEN [mant |-> <<>>, exp |-> 0]
    ELSE IF BitLen(mant) > MantissaBits
         THEN [mant |-> ShiftRight(mant, 1), exp |-> exp + 1]
         ELSE [mant |-> ShiftLeft(mant, MantissaBits - BitLen(mant)),
               exp  |-> exp - (MantissaBits - BitLen(mant))]

\* the binary64 number nearest to (mant + fraction) * 2^exp, where inexact says
\* that 0 < fraction < 1 was dropped from mant: round to nearest, ties to even
RoundToNearest(mant, exp, inexact) ==
    IF BitLen(mant) <= MantissaBits THEN Number(mant, exp)
    ELSE LET k      == BitLen(mant) - MantissaBits
             q      == ShiftRight(mant, k)
             half   == Bit(mant, k - 1) = 1
             sticky == inexact \/ ShiftLeft(ShiftRight(mant, k - 1), k - 1) # mant
             up     == half /\ (sticky \/ Bit(q, 0) = 1)
         IN  Number(IF up THEN BigAdd(q, <<1>>) ELSE q, exp + k)

\* a * b
Multiply(a, b) == RoundToNearest(BigMul(a.mant, b.mant), a.exp + b.exp, FALSE)

\* the value of an integer n >= 0
FromInteger(n) == Number(BigFromInt(n), 0)

\* the value of the decimal literal n/d (1.5 is 15/10)
GuardBits == 64
Literal(n, d) ==
    LET scaled == ShiftLeft(BigFromInt(n), GuardBits)
    IN  RoundToNearest(BigDivSmall(scaled, d), 0 - GuardBits, BigModSmall(scaled, d) # 0)

\* a < b
Less(a, b) ==
    IF b.mant = <<>> THEN FALSE
    ELSE IF a.mant = <<>> THEN TRUE
    ELSE IF a.exp # b.exp THEN a.exp < b.exp
    ELSE BigLess(a.mant, b.mant)

(***************************************************************************)
(* identifyKeyFiles.                                                       *)
(***************************************************************************)
SourceBoost     == Literal(15, 10)     \* score *= 1.5
NewFileBoost    == Literal(13, 10)     \* score *= 1.3
TestReduction   == Literal(7, 10)      \* score *= 0.7
ConfigReduction == Literal(5, 10)      \* score *= 0.5
DocsReduction   == Literal(3, 10)      \* score *= 0.3

\* /\.(ts|js|tsx|jsx|py|go|rs|java|cpp|c)$/
IsSourceFile(p) ==
    \E e \in {"ts", "js", "tsx", "jsx", "py", "go", "rs", "java", "cpp", "c"} :
        EndsWith(p, "." \o e)

\* /\.(test|spec)\./
IsTestFile(p) == Contains(p, ".test.") \/ Contains(p, ".spec.")

Multipliers_NoNewFileBoost(file) ==
       (IF IsSourceFile(file.path) THEN <<SourceBoost>> ELSE <<>>)
    \o (IF IsTestFile(file.path) THEN <<TestReduction>> ELSE <<>>)
    \o (IF categorizeFileByPath(file.path) = "configuration"
        THEN <<ConfigReduction>> ELSE <<>>)
    \o (IF categorizeFileByPath(file.path) = "documentation"
        THEN <<DocsReduction>> ELSE <<>>)

\* the multipliers the if statements apply to a file, in the order of the code
Multipliers(file) ==
       (IF IsSourceFile(file.path) THEN <<SourceBoost>> ELSE <<>>)
    \o (IF file.changeType = "added" THEN <<NewFileBoost>> ELSE <<>>)
    \o (IF IsTestFile(file.path) THEN <<TestReduction>> ELSE <<>>)
    \o (IF categorizeFileByPath(file.path) = "configuration"
        THEN <<ConfigReduction>> ELSE <<>>)
    \o (IF categorizeFileByPath(file.path) = "documentation"
        THEN <<DocsReduction>> ELSE <<>>)

RECURSIVE ApplyInOrder(_, _)
ApplyInOrder(value, multipliers) ==
    IF multipliers = <<>> THEN value
    ELSE ApplyInOrder(Multiply(value, Head(multipliers)), Tail(multipliers))

\* let score = 0; score += linesAdded + linesRemoved; then the multipliers
ScoreOf(file) ==
    ApplyInOrder(FromInteger(0 + (file.linesAdded + file.linesRemoved)),
                 Multipliers(file))

\* source; neither source nor pattern; source and test; source and
\* configuration; documentation
KeyPaths == {"src/x.ts", "notes.txt", "src/x.test.ts", "vite.config.ts", "README.md"}

KeyFiles ==
    [path : KeyPaths, changeType : {"added", "modified"},
     linesAdded : {1, 4}, linesRemoved : {1}]

\* more files than the default limit
ManyPaths == <<"src/a.ts", "src/b.ts", "lib/c.py", "notes.txt", "README.md", "package.json">>

ManyFiles ==
    {[i \in 1..Len(ManyPaths) |->
         [path |-> ManyPaths[i], changeType |-> "modified",
          linesAdded |-> IF i \in big THEN 4 ELSE 1, linesRemoved |-> 1]] :
       big \in SUBSET (1..Len(ManyPaths))}

\* every file a specification below gives to identifyKeyFiles
ScoredFiles == KeyFiles \cup UNION {{fs[i] : i \in 1..Len(fs)} : fs \in ManyFiles}

\* ScoreOf over ScoredFiles, computed once
ScoreTable == FunctionOf({<<f, ScoreOf(f)>> : f \in ScoredFiles})

score(file) == IF file \in ScoredFiles THEN ScoreTable[file] ELSE ScoreOf(file)

\* files.map(file => ({ file, score }))
scoreFiles(fs) == [i \in 1..Len(fs) |-> [file |-> fs[i], score |-> score(fs[i])]]

\* Array.prototype.sort((a, b) => b.score - a.score) is stable: x goes in front
\* of the first element the comparator puts behind it
RECURSIVE InsertByScore(_, _)
InsertByScore(sorted, x) ==
    IF sorted = <<>> THEN <<x>>
    ELSE IF Less(Head(sorted).score, x.score)           \* x.score - head.score > 0
         THEN <<x>> \o sorted
         ELSE <<Head(sorted)>> \o InsertByScore(Tail(sorted), x)

RECURSIVE InsertByScoreUnstable(_, _)
InsertByScoreUnstable(sorted, x) ==
    IF sorted = <<>> THEN <<x>>
    ELSE IF ~Less(x.score, Head(sorted).score)
         THEN <<x>> \o sorted
         ELSE <<Head(sorted)>> \o InsertByScoreUnstable(Tail(sorted), x)

RECURSIVE SortFrom(_, _)
SortFrom(todo, sorted) ==
    IF todo = <<>> THEN sorted
    ELSE SortFrom(Tail(todo), InsertByScore(sorted, Head(todo)))

RECURSIVE SortFromUnstable(_, _)
SortFromUnstable(todo, sorted) ==
    IF todo = <<>> THEN sorted
    ELSE SortFromUnstable(Tail(todo), InsertByScoreUnstable(sorted, Head(todo)))

sortByScore_Unstable(unsorted) == SortFromUnstable(unsorted, <<>>)

sortByScore(unsorted) == SortFrom(unsorted, <<>>)

\* slice taking the element at index end as well
slice_EndIncluded(seq, start, end) ==
    LET from == IF start < 0 THEN Max(Len(seq) + start, 0) ELSE Min(start, Len(seq))
        to   == IF end < 0 THEN Max(Len(seq) + end, 0) ELSE Min(end, Len(seq))
    IN  SubSeq(seq, from + 1, Min(to + 1, Len(seq)))

\* Array.prototype.slice(start, end): a negative index counts from the end
slice(seq, start, end) ==
    LET from == IF start < 0 THEN Max(Len(seq) + start, 0) ELSE Min(start, Len(seq))
        to   == IF end < 0 THEN Max(Len(seq) + end, 0) ELSE Min(end, Len(seq))
    IN  SubSeq(seq, from + 1, to)

identifyKeyFiles(fs, lim) ==
    LET top == slice(sortByScore(scoreFiles(fs)), 0, lim)
    IN  [i \in 1..Len(top) |-> top[i].file.path]

(***************************************************************************)
(* Inputs of identifyKeyFiles.                                             *)
(***************************************************************************)
Limits == (-1..MaxLimit) \cup {DefaultLimit}

InitKeyFiles ==
    /\ files \in FileLists(MaxFiles, KeyFiles) \cup ManyFiles
    /\ limit \in Limits
    /\ currentBranch = "main"
    /\ commits = <<>>
    /\ pc = "input"
    /\ changes = <<>>
    /\ keyFiles = <<>>
    /\ scored = <<>>
    /\ intent = ""
    /\ SummaryUnused
    /\ StorageUnused

IdentifyKeyFiles ==
    /\ pc = "input"
    /\ scored' = sortByScore(scoreFiles(files))
    /\ keyFiles' = identifyKeyFiles(files, limit)
    /\ pc' = "identifyKeyFiles"
    /\ UNCHANGED <<files, limit, currentBranch, commits, changes, intent>>
    /\ UNCHANGED <<summaryVars, storageVars>>

SpecKeyFiles == InitKeyFiles /\ [][IdentifyKeyFiles]_vars

(***************************************************************************)
(* inferIntent.                                                            *)
(***************************************************************************)
\* the character class [\/\-_]
Delimiters == {"/", "-", "_"}

\* INTENT_PATTERNS: every pattern is one or two keywords followed by a
\* delimiter, unanchored and case-insensitive
INTENT_PATTERNS ==
    << [keywords |-> {"feat", "feature"},     intent |-> "add new functionality"],
       [keywords |-> {"fix"},                 intent |-> "fix a bug or issue"],
       [keywords |-> {"bug"},                 intent |-> "address a bug"],
       [keywords |-> {"refactor"},            intent |-> "improve code structure"],
       [keywords |-> {"perf", "performance"}, intent |-> "improve performance"],
       [keywords |-> {"doc", "docs"},         intent |-> "update documentation"],
       [keywords |-> {"test"},                intent |-> "add or improve tests"],
       [keywords |-> {"chore"},               intent |-> "perform maintenance tasks"],
       [keywords |-> {"hotfix"},              intent |-> "apply an urgent fix"],
       [keywords |-> {"release"},             intent |-> "prepare a release"],
       [keywords |-> {"dep", "deps"},         intent |-> "update dependencies"],
       [keywords |-> {"upgrade"},             intent |-> "upgrade dependencies or tools"],
       [keywords |-> {"migratio", "migration"},
                                              intent |-> "perform a data or code migration"] >>

\* pattern.test(branchName)
PatternTest(pattern, branchName) ==
    LET lower == toLowerCase(branchName)
    IN  \E k \in pattern.keywords, d \in Delimiters : Contains(lower, k \o d)

\* index of the first pattern from i on that matches, 0 when none does
RECURSIVE FirstPatternFrom(_, _)
FirstPatternFrom(i, branchName) ==
    IF i > Len(INTENT_PATTERNS) THEN 0
    ELSE IF PatternTest(INTENT_PATTERNS[i], branchName) THEN i
    ELSE FirstPatternFrom(i + 1, branchName)

\* the keywords the specification lists for the branch tier
Keywords ==
    {"feature", "fix", "bug", "refactor", "performance", "docs", "test", "chore",
     "hotfix", "release", "deps", "upgrade", "migration"}

\* <keyword><delimiter><rest>, some in upper case; branches whose keyword is
\* not in front; branches without keyword
Branches ==
    {k \o "/login-flow" : k \in Keywords}
        \cup {"fix" \o d \o rest : d \in Delimiters, rest \in {"", "-", "a_b"}}
        \cup {"docs/", "release_", "test-"}
        \cup {"Feature/Login_Flow", "FIX-typo", "user/fix-login", "my_docs/intro",
              "main", "develop", "feature", "fixes", "v2/cleanup"}

\* FirstPatternFrom(1, _) over Branches, computed once
FirstPatternTable == FunctionOf({<<b, FirstPatternFrom(1, b)>> : b \in Branches})

FirstPattern(branchName) ==
    IF branchName \in Branches THEN FirstPatternTable[branchName]
    ELSE FirstPatternFrom(1, branchName)

\* branchName.split(/[\/\-_]/), the current segment carried along
RECURSIVE SplitFrom(_, _)
SplitFrom(s, segment) ==
    IF Len(s) = 0 THEN <<segment>>
    ELSE IF CharAt(s, 1) \in Delimiters
         THEN <<segment>> \o SplitFrom(SubSeq(s, 2, Len(s)), "")
         ELSE SplitFrom(SubSeq(s, 2, Len(s)), segment \o CharAt(s, 1))

split(s) == SplitFrom(s, "")

\* parts.join(' ')
RECURSIVE join(_)
join(parts) ==
    IF parts = <<>> THEN ""
    ELSE IF Len(parts) = 1 THEN parts[1]
    ELSE parts[1] \o " " \o join(Tail(parts))

\* s.replace(/[-_]/g, ' ')
RECURSIVE replaceDashes(_)
replaceDashes(s) ==
    IF Len(s) = 0 THEN ""
    ELSE (IF CharAt(s, 1) \in {"-", "_"} THEN " " ELSE CharAt(s, 1))
             \o replaceDashes(SubSeq(s, 2, Len(s)))

\* the branch tier: the text returned when pattern i matched
FromBranchName(i, branchName) ==
    LET parts       == split(branchName)
        description == replaceDashes(join(SubSeq(parts, 2, Len(parts))))
    IN  IF Len(description) > 0
        THEN INTENT_PATTERNS[i].intent \o ": " \o description
        ELSE INTENT_PATTERNS[i].intent

\* commits[commits.length - 1]
FromCommits(cs) == "Based on commits: " \o cs[Len(cs)].message

includes(seq, x) == \E i \in 1..Len(seq) : seq[i] = x

FromChanges_DeletionFirst(fs) ==
    LET categorized == categorizeChanges(fs)
        categories  == [i \in 1..Len(categorized) |-> categorized[i].category]
    IN  IF includes(categories, "deletion") THEN "Remove unused code or features"
        ELSE IF includes(categories, "new-feature")
             THEN "Add new functionality to the codebase"
        ELSE IF includes(categories, "refactoring")
             THEN "Improve code structure without changing behavior"
        ELSE IF includes(categories, "configuration") THEN "Update project configuration"
        ELSE "Make changes to the codebase"

\* the fallback tier
FromChanges(fs) ==
    LET categorized == categorizeChanges(fs)
        categories  == [i \in 1..Len(categorized) |-> categorized[i].category]
    IN  IF includes(categories, "new-feature")
        THEN "Add new functionality to the codebase"
        ELSE IF includes(categories, "deletion") THEN "Remove unused code or features"
        ELSE IF includes(categories, "refactoring")
             THEN "Improve code structure without changing behavior"
        ELSE IF includes(categories, "configuration") THEN "Update project configuration"
        ELSE "Make changes to the codebase"

inferIntent_CommitsFirst(branchName, cs, fs) ==
    LET matched == FirstPattern(branchName)
    IN  IF Len(cs) > 0 THEN FromCommits(cs)
        ELSE IF matched # 0 THEN FromBranchName(matched, branchName)
        ELSE FromChanges(fs)

inferIntent(branchName, cs, fs) ==
    LET matched == FirstPattern(branchName)
    IN  IF matched # 0 THEN FromBranchName(matched, branchName)
        ELSE IF Len(cs) > 0 THEN FromCommits(cs)
        ELSE FromChanges(fs)

(***************************************************************************)
(* Inputs of inferIntent.                                                  *)
(***************************************************************************)
Messages == {"initial commit", "wip"}

RECURSIVE CommitLists(_)
CommitLists(n) ==
    IF n = 0 THEN {<<>>}
    ELSE LET shorter == CommitLists(n - 1)
         IN  shorter \cup {Append(cs, [message |-> m]) :
                              cs \in {c \in shorter : Len(c) = n - 1}, m \in Messages}

\* files of every category the fallback tier looks at, and of three it does
\* not look at
IntentFiles ==
    [path : {"src/x.ts"}, changeType : {"added", "modified", "renamed"},
     linesAdded : {1}, linesRemoved : {0}]
        \cup [path : {"src/y.ts"}, changeType : {"deleted", "renamed"},
              linesAdded : {0}, linesRemoved : {1}]
        \cup [path : {"package.json", "README.md"}, changeType : {"modified"},
              linesAdded : {1}, linesRemoved : {0}]

InitIntent ==
    /\ files \in FileLists(MaxFiles, IntentFiles)
    /\ limit = DefaultLimit
    /\ currentBranch \in Branches
    /\ commits \in CommitLists(MaxCommits)
    /\ pc = "input"
    /\ changes = <<>>
    /\ keyFiles = <<>>
    /\ scored = <<>>
    /\ intent = ""
    /\ SummaryUnused
    /\ StorageUnused

InferIntent ==
    /\ pc = "input"
    /\ intent' = inferIntent(currentBranch, commits, files)
    /\ pc' = "inferIntent"
    /\ UNCHANGED <<files, limit, currentBranch, commits, changes, keyFiles, scored>>
    /\ UNCHANGED <<summaryVars, storageVars>>

SpecIntent == InitIntent /\ [][InferIntent]_vars

(***************************************************************************)
(* The three functions together: any of them applied to any of the inputs. *)
(***************************************************************************)
Init == InitCategorize \/ InitKeyFiles \/ InitIntent

Next == CategorizeChanges \/ IdentifyKeyFiles \/ InferIntent

Spec == Init /\ [][Next]_vars

(***************************************************************************)
(* Properties of categorizeChanges.                                        *)
(***************************************************************************)
Categorized == pc = "categorizeChanges"

\* the places <<entry, position>> of the returned value that hold path p
Places(p) ==
    {<<k, j>> \in (1..Len(changes)) \X (1..MaxFiles + 1) :
        j <= Len(changes[k].files) /\ changes[k].files[j] = p}

AllPlaces ==
    {<<k, j>> \in (1..Len(changes)) \X (1..MaxFiles + 1) : j <= Len(changes[k].files)}

\* the category of the returned entry that lists path p
CategoryGiven(p) == changes[(CHOOSE pl \in Places(p) : TRUE)[1]].category

\* the path tier of the specification, straight from the three pattern lists
PathTierOf(p) ==
    IF ConfigurationPattern(p) THEN "configuration"
    ELSE IF TestingPattern(p) THEN "testing"
    ELSE IF DocumentationPattern(p) THEN "documentation"
    ELSE NoCategory

\* PathTierOf over AllPaths, computed once
PathTierTable == FunctionOf({<<p, PathTierOf(p)>> : p \in AllPaths})

PathTier(p) == IF p \in AllPaths THEN PathTierTable[p] ELSE PathTierOf(p)

MatchesBothConfigurationAndTesting ==
    {p \in AllPaths : ConfigurationPattern(p) /\ TestingPattern(p)}

\* C1: every input file is listed by exactly one returned entry, exactly once;
\* the entries' file lists are pairwise disjoint and list nothing else.
C1_Partition ==
    Categorized =>
        /\ \A i \in 1..Len(files) : Cardinality(Places(files[i].path)) = 1
        /\ Cardinality(AllPlaces) = Len(files)
        /\ \A k, l \in 1..Len(changes) :
              k # l => \A j \in 1..Len(changes[k].files) :
                          \A m \in 1..Len(changes[l].files) :
                              changes[k].files[j] # changes[l].files[m]

C1_Witness ==
    /\ Categorized
    /\ Len(files) = 3
    /\ Len(changes) = 2
    /\ \E k \in 1..Len(changes) : Len(changes[k].files) = 2

\* C2: a path that matches a pattern of configuration, testing or
\* documentation gets the first of these three that matches, whatever its
\* change type: added src/app.test.ts is testing, and a path matching both a
\* configuration and a testing pattern is configuration.
C2_PathBeforeChangeType ==
    Categorized =>
        /\ \A i \in 1..Len(files) :
              PathTier(files[i].path) # NoCategory =>
                  /\ Places(files[i].path) # {}
                  /\ CategoryGiven(files[i].path) = PathTier(files[i].path)
        /\ \A i \in 1..Len(files) :
              (files[i].path = "src/app.test.ts" /\ files[i].changeType = "added") =>
                  /\ Places(files[i].path) # {}
                  /\ CategoryGiven(files[i].path) = "testing"
        /\ \A i \in 1..Len(files) :
              files[i].path \in MatchesBothConfigurationAndTesting =>
                  /\ Places(files[i].path) # {}
                  /\ CategoryGiven(files[i].path) = "configuration"

C2_Witness ==
    /\ Categorized
    /\ \E i \in 1..Len(files) :
          files[i].path = "src/app.test.ts" /\ files[i].changeType = "added"
    /\ \E i \in 1..Len(files) :
          /\ files[i].path \in MatchesBothConfigurationAndTesting
          /\ files[i].changeType = "deleted"
    /\ \E k \in 1..Len(changes) : changes[k].category = "testing"
    /\ \E k \in 1..Len(changes) : changes[k].category = "configuration"

ByChangeType(t) ==
    CASE t = "added"   -> "new-feature"
      [] t = "deleted" -> "deletion"
      [] t = "renamed" -> "refactoring"
      [] OTHER         -> "modified-logic"

ChangeTypeCategories == {"new-feature", "modified-logic", "refactoring", "deletion"}

\* C3: a path that matches no pattern is categorized by its change type alone
\* (added, deleted, renamed as in the table, anything else modified-logic), and
\* the four change-type categories never list a path that matches a pattern.
C3_ChangeTypeWhenNoPattern ==
    Categorized =>
        /\ \A i \in 1..Len(files) :
              PathTier(files[i].path) = NoCategory =>
                  /\ Places(files[i].path) # {}
                  /\ CategoryGiven(files[i].path) = ByChangeType(files[i].changeType)
        /\ \A k \in 1..Len(changes) :
              changes[k].category \in ChangeTypeCategories =>
                  \A j \in 1..Len(changes[k].files) :
                      PathTier(changes[k].files[j]) = NoCategory

C3_Witness ==
    /\ Categorized
    /\ \E i \in 1..Len(files) :
          /\ PathTier(files[i].path) = NoCategory
          /\ files[i].changeType = "copied"
          /\ CategoryGiven(files[i].path) = "modified-logic"
    /\ \E i \in 1..Len(files) :
          PathTier(files[i].path) # NoCategory /\ files[i].changeType = "renamed"

\* position of path p in the input
InputIndex(p) == CHOOSE i \in 1..Len(files) : files[i].path = p

\* C4: the returned entries follow the fixed priority new-feature,
\* modified-logic, refactoring, deletion, configuration, testing, documentation
\* whatever the input order; no category twice, no entry without a file (no
\* input, no entry); inside an entry the paths keep their input order; and
\* [README.md modified, src/x.ts added] gives new-feature before documentation.
C4_PriorityOrder ==
    Categorized =>
        /\ \A k \in 1..Len(changes) : indexOf(categoryOrder, changes[k].category) >= 0
        /\ \A k, l \in 1..Len(changes) :
              k < l => indexOf(categoryOrder, changes[k].category)
                         < indexOf(categoryOrder, changes[l].category)
        /\ \A k \in 1..Len(changes) : changes[k].files # <<>>
        /\ files = <<>> => changes = <<>>
        /\ \A k \in 1..Len(changes) :
              \A j, m \in 1..Len(changes[k].files) :
                  j < m => /\ HasPath(files, changes[k].files[j])
                           /\ HasPath(files, changes[k].files[m])
                           /\ InputIndex(changes[k].files[j])
                                < InputIndex(changes[k].files[m])
        /\ ( /\ Len(files) = 2
             /\ files[1].path = "README.md" /\ files[1].changeType = "modified"
             /\ files[2].path = "src/x.ts"  /\ files[2].changeType = "added" )
           => /\ Len(changes) = 2
              /\ changes[1].category = "new-feature"
              /\ changes[1].files = <<"src/x.ts">>
              /\ changes[2].category = "documentation"
              /\ changes[2].files = <<"README.md">>

C4_Witness ==
    /\ Categorized
    /\ Len(files) = 3
    /\ files[1].path = "package.json"
    /\ files[2].path = "src/x.ts" /\ files[2].changeType = "added"
    /\ files[3].path = "jest.config.ts"
    /\ Len(changes) = 2
    /\ changes[1].category = "new-feature"
    /\ changes[2].category = "configuration"
    /\ changes[2].files = <<"package.json", "jest.config.ts">>

(***************************************************************************)
(* Properties of identifyKeyFiles.                                         *)
(***************************************************************************)
Identified == pc = "identifyKeyFiles"

\* C5 as amended: for a limit >= 0 the result has min(limit, number of files)
\* paths, so min(5, number of files) with the default limit and none for an
\* empty list; a negative limit -k leaves out the last k files of the ranking.
C5_LengthIsMinOfLimitAndSize ==
    Identified =>
        /\ limit >= 0 => Len(keyFiles) = Min(limit, Len(files))
        /\ limit = DefaultLimit => Len(keyFiles) = Min(5, Len(files))
        /\ files = <<>> => keyFiles = <<>>
        /\ limit < 0 => Len(keyFiles) = Max(Len(files) + limit, 0)

C5_Witness ==
    /\ Identified
    /\ limit = DefaultLimit
    /\ Len(files) = 6
    /\ Len(keyFiles) = 5

\* C5 as stated: the length is min(limit, number of files) for every limit.
C5_LengthForEveryLimit ==
    Identified => Len(keyFiles) = Min(limit, Len(files))

\* the score the call gave the file with path p
ScoreGiven(p) == scored[CHOOSE i \in 1..Len(scored) : scored[i].file.path = p].score

\* p is ranked in front of q: higher score, or the same score and earlier input
RankedBefore(p, q) ==
    \/ Less(ScoreGiven(q), ScoreGiven(p))
    \/ ScoreGiven(p) = ScoreGiven(q) /\ InputIndex(p) < InputIndex(q)

\* C6: the result is the leading part of the input sorted by score: distinct
\* input paths, scores non-increasing, no omitted file scoring higher than a
\* returned one, equal scores in input order.
C6_LeadingPartOfStableSort ==
    Identified =>
        /\ Len(scored) = Len(files)
        /\ \A i \in 1..Len(files) : \E k \in 1..Len(scored) : scored[k].file = files[i]
        /\ \A i \in 1..Len(keyFiles) : HasPath(files, keyFiles[i])
        /\ \A i, j \in 1..Len(keyFiles) : i # j => keyFiles[i] # keyFiles[j]
        /\ \A i, j \in 1..Len(keyFiles) :
              i < j => /\ ~Less(ScoreGiven(keyFiles[i]), ScoreGiven(keyFiles[j]))
                       /\ RankedBefore(keyFiles[i], keyFiles[j])
        /\ \A i \in 1..Len(keyFiles) : \A m \in 1..Len(files) :
              (\A j \in 1..Len(keyFiles) : keyFiles[j] # files[m].path) =>
                  /\ ~Less(ScoreGiven(keyFiles[i]), ScoreGiven(files[m].path))
                  /\ RankedBefore(keyFiles[i], files[m].path)

\* a tie between files of different kinds, cut by the limit: the earlier one is
\* returned behind a higher-scored later file, the later one is left out
C6_Witness ==
    /\ Identified
    /\ Len(files) = 3
    /\ limit = 2
    /\ keyFiles = <<files[2].path, files[1].path>>
    /\ ScoreGiven(files[1].path) = ScoreGiven(files[3].path)
    /\ Less(ScoreGiven(files[1].path), ScoreGiven(files[2].path))
    /\ IsSourceFile(files[1].path) # IsSourceFile(files[3].path)

One == FromInteger(1)

Factor(applies, multiplier) == IF applies THEN multiplier ELSE One

\* the product the specification describes, one factor after the other
ProductOf(file) ==
    Multiply(Multiply(Multiply(Multiply(Multiply(
        FromInteger(file.linesAdded + file.linesRemoved),
        Factor(IsSourceFile(file.path), Literal(15, 10))),
        Factor(file.changeType = "added", Literal(13, 10))),
        Factor(IsTestFile(file.path), Literal(7, 10))),
        Factor(PathTier(file.path) = "configuration", Literal(5, 10))),
        Factor(PathTier(file.path) = "documentation", Literal(3, 10)))

ProductTable == FunctionOf({<<f, ProductOf(f)>> : f \in ScoredFiles})

Product(file) == IF file \in ScoredFiles THEN ProductTable[file] ELSE ProductOf(file)

\* the multipliers of a file applied last to first
Reversed(ms) == [i \in 1..Len(ms) |-> ms[Len(ms) + 1 - i]]

ScoreReversed(file) ==
    ApplyInOrder(FromInteger(file.linesAdded + file.linesRemoved),
                 Reversed(Multipliers(file)))

ReversedTable == FunctionOf({<<f, ScoreReversed(f)>> : f \in ScoredFiles})

scoreReversed(file) ==
    IF file \in ScoredFiles THEN ReversedTable[file] ELSE ScoreReversed(file)

\* identifyKeyFiles with every file's multipliers applied last to first
RankingReversed(fs, lim) ==
    LET rescored == [i \in 1..Len(fs) |-> [file |-> fs[i], score |-> scoreReversed(fs[i])]]
        top == slice(sortByScore(rescored), 0, lim)
    IN  [i \in 1..Len(top) |-> top[i].file.path]

\* the pairs of files whose ranking depends on the order of the multipliers
OrderSensitivePairs ==
    {fs \in FileLists(2, KeyFiles) :
        Len(fs) = 2 /\ RankingReversed(fs, 2) # identifyKeyFiles(fs, 2)}

\* C7: the score of a file is (linesAdded + linesRemoved) multiplied in this
\* sequence by 1.5 for a source extension, 1.3 for an added file, 0.7 for a
\* .test. or .spec. path, 0.5 for a path categorized configuration, 0.3 for one
\* categorized documentation; and the order matters: there are inputs whose
\* ranking changes when the same multipliers are applied in another order.
C7_ScoreIsProductInSequence ==
    Identified =>
        /\ \A k \in 1..Len(scored) : scored[k].score = Product(scored[k].file)
        /\ OrderSensitivePairs # {}

\* [README.md added 4+1, vite.config.ts added 1+1]: 5 * 1.3 * 0.3 is rounded
\* to 1.95 and 2 * 1.5 * 1.3 * 0.5 to 1.9500000000000002, so vite.config.ts
\* comes first; last to first both are 1.9500000000000002 and README.md stays
\* first
C7_Witness ==
    /\ Identified
    /\ Len(files) = 2
    /\ files[1].path = "README.md" /\ files[1].changeType = "added"
    /\ files[2].path = "vite.config.ts" /\ files[2].changeType = "added"
    /\ keyFiles = <<"vite.config.ts", "README.md">>
    /\ Less(scored[2].score, scored[1].score)
    /\ RankingReversed(files, limit) = <<"README.md", "vite.config.ts">>
    /\ scoreReversed(files[1]) = scoreReversed(files[2])

(***************************************************************************)
(* Properties of inferIntent.                                              *)
(***************************************************************************)
Inferred == pc = "inferIntent"

\* the branches some intent pattern matches
MatchingBranches ==
    {b \in Branches : \E i \in 1..Len(INTENT_PATTERNS) : PatternTest(INTENT_PATTERNS[i], b)}

DefaultPhrases ==
    {"Add new functionality to the codebase", "Remove unused code or features",
     "Improve code structure without changing behavior", "Update project configuration",
     "Make changes to the codebase"}

IntentPhrases == {INTENT_PATTERNS[i].intent : i \in 1..Len(INTENT_PATTERNS)}

StartsWith(s, prefix) == MatchAt(s, prefix, 1)

\* C8: first success wins: a branch name that matches a pattern decides the
\* result alone, whatever the commits and files; otherwise a commit list that
\* is not empty gives "Based on commits: " and the message of its last element,
\* whatever the files; only when neither applies is the result one of the
\* phrases derived from the files' categories.
C8_ResolutionOrder ==
    Inferred =>
        /\ currentBranch \in MatchingBranches =>
              /\ intent = inferIntent(currentBranch, <<>>, <<>>)
              /\ \E ph \in IntentPhrases : StartsWith(intent, ph)
              /\ ~StartsWith(intent, "Based on commits: ")
        /\ (currentBranch \notin MatchingBranches /\ Len(commits) >= 1) =>
              intent = "Based on commits: " \o commits[Len(commits)].message
        /\ intent \in DefaultPhrases <=>
              (currentBranch \notin MatchingBranches /\ commits = <<>>)

C8_Witness ==
    /\ Inferred
    /\ currentBranch = "feature/login-flow"
    /\ Len(commits) = 2 /\ commits[1].message # commits[2].message
    /\ \E i \in 1..Len(files) : files[i].changeType = "deleted"
    /\ intent = "add new functionality: login flow"

\* the intent the table gives for a keyword of the specification
IntentOfKeyword(k) ==
    CASE k = "feature"     -> "add new functionality"
      [] k = "fix"         -> "fix a bug or issue"
      [] k = "bug"         -> "address a bug"
      [] k = "refactor"    -> "improve code structure"
      [] k = "performance" -> "improve performance"
      [] k = "docs"        -> "update documentation"
      [] k = "test"        -> "add or improve tests"
      [] k = "chore"       -> "perform maintenance tasks"
      [] k = "hotfix"      -> "apply an urgent fix"
      [] k = "release"     -> "prepare a release"
      [] k = "deps"        -> "update dependencies"
      [] k = "upgrade"     -> "upgrade dependencies or tools"
      [] k = "migration"   -> "perform a data or code migration"

\* s with every delimiter replaced by a space
RECURSIVE DelimitersToSpaces(_)
DelimitersToSpaces(s) ==
    IF Len(s) = 0 THEN ""
    ELSE (IF CharAt(s, 1) \in Delimiters THEN " " ELSE CharAt(s, 1))
             \o DelimitersToSpaces(SubSeq(s, 2, Len(s)))

\* the branch is <keyword><delimiter><rest>, the keyword in any letter case
HasKeywordPrefix(branchName, k) ==
    /\ Len(branchName) > Len(k)
    /\ toLowerCase(SubSeq(branchName, 1, Len(k))) = k
    /\ CharAt(branchName, Len(k) + 1) \in Delimiters

\* C9: a match is a match of the first delimited segment; for a branch
\* <keyword><delimiter><rest> the result is the intent the table gives for that
\* keyword, followed by ": " and rest with its delimiters replaced by spaces
\* when rest is not empty; "feature/login-flow" gives
\* "add new functionality: login flow".
C9_PrefixKeywordIntent ==
    Inferred =>
        /\ currentBranch \in MatchingBranches =>
              \E i \in 1..Len(INTENT_PATTERNS) :
                  /\ toLowerCase(split(currentBranch)[1]) \in INTENT_PATTERNS[i].keywords
                  /\ StartsWith(intent, INTENT_PATTERNS[i].intent)
        /\ \A k \in Keywords :
              HasKeywordPrefix(currentBranch, k) =>
                  LET rest == SubSeq(currentBranch, Len(k) + 2, Len(currentBranch))
                  IN  intent = IF Len(rest) > 0
                               THEN IntentOfKeyword(k) \o ": " \o DelimitersToSpaces(rest)
                               ELSE IntentOfKeyword(k)
        /\ currentBranch = "feature/login-flow" =>
              intent = "add new functionality: login flow"

\* the categories of the entries categorizeChanges returns for the files
CategoriesOfFiles ==
    {categorizeChanges(files)[k].category : k \in 1..Len(categorizeChanges(files))}

\* C10: without a matching branch name and without commits the result is the
\* first default phrase in the order new-feature, deletion, refactoring,
\* configuration, and "Make changes to the codebase" otherwise.
C10_FallbackPhrase ==
    (Inferred /\ currentBranch \notin MatchingBranches /\ commits = <<>>) =>
        intent =
            IF "new-feature" \in CategoriesOfFiles
            THEN "Add new functionality to the codebase"
            ELSE IF "deletion" \in CategoriesOfFiles THEN "Remove unused code or features"
            ELSE IF "refactoring" \in CategoriesOfFiles
                 THEN "Improve code structure without changing behavior"
            ELSE IF "configuration" \in CategoriesOfFiles
                 THEN "Update project configuration"
            ELSE "Make changes to the codebase"

\* deletion, refactoring and configuration present and new-feature absent
C10_Witness ==
    /\ Inferred
    /\ currentBranch = "main"
    /\ commits = <<>>
    /\ CategoriesOfFiles = {"deletion", "refactoring", "configuration"}
    /\ intent = "Remove unused code or features"

(***************************************************************************)
(* Inputs of categorizeChanges for the descriptions: groups of several     *)
(* files with different line counts.                                       *)
(***************************************************************************)
DescribedFiles ==
    {f \in [path : {"src/x.ts", "src/app.test.ts"},
            changeType : {"added", "modified", "deleted", "renamed"},
            linesAdded : {1, 12}, linesRemoved : {0, 40}] :
        (f.linesAdded = 1) <=> (f.linesRemoved = 0)}
    \cup [path : {"src/y.ts"}, changeType : {"added", "modified", "deleted", "renamed"},
          linesAdded : {12}, linesRemoved : {40}]
    \cup [path : {"src/x.test.ts"}, changeType : {"modified"},
          linesAdded : {12}, linesRemoved : {40}]
    \cup [path : {"README.md"}, changeType : {"added", "modified"},
          linesAdded : {1}, linesRemoved : {0}]
    \cup [path : {"package.json"}, changeType : {"modified"},
          linesAdded : {1}, linesRemoved : {0}]

InitDescriptions ==
    /\ files \in FileLists(MaxFiles, DescribedFiles)
    /\ limit = DefaultLimit
    /\ currentBranch = "main"
    /\ commits = <<>>
    /\ pc = "input"
    /\ changes = <<>>
    /\ keyFiles = <<>>
    /\ scored = <<>>
    /\ intent = ""
    /\ SummaryUnused
    /\ StorageUnused

SpecDescriptions == InitDescriptions /\ [][CategorizeChanges]_vars

(***************************************************************************)
(* Properties of generateCategoryDescription.                              *)
(***************************************************************************)
Digits == {"0", "1", "2", "3", "4", "5", "6", "7", "8", "9"}

DigitValue(c) == CHOOSE d \in 0..9 : ToString(d) = c

\* the first position at which lit occurs in s, 0 when it does not occur
RECURSIVE IndexFrom(_, _, _)
IndexFrom(s, lit, i) ==
    IF i + Len(lit) - 1 > Len(s) THEN 0
    ELSE IF MatchAt(s, lit, i) THEN i
    ELSE IndexFrom(s, lit, i + 1)

\* the number written by the digits of s that start at position i
RECURSIVE NumberFrom(_, _, _)
NumberFrom(s, i, value) ==
    IF i <= Len(s) /\ CharAt(s, i) \in Digits
    THEN NumberFrom(s, i + 1, 10 * value + DigitValue(CharAt(s, i)))
    ELSE value

\* the number written by the digits of s that end at position i
RECURSIVE NumberUpTo(_, _, _, _)
NumberUpTo(s, i, value, unit) ==
    IF i >= 1 /\ CharAt(s, i) \in Digits
    THEN NumberUpTo(s, i - 1, value + unit * DigitValue(CharAt(s, i)), 10 * unit)
    ELSE value

\* the number the description writes right behind the mark
NumberAfter(d, mark) == NumberFrom(d, IndexFrom(d, mark, 1) + Len(mark), 0)

\* the number the description writes right in front of the noun
NumberBefore(d, noun) == NumberUpTo(d, IndexFrom(d, noun, 1) - 1, 0, 1)

\* the input files the k-th returned entry lists
GroupOf(k) == {i \in 1..Len(files) : \E j \in 1..Len(changes[k].files) :
                                         changes[k].files[j] = files[i].path}

RECURSIVE SumOver(_, _)
SumOver(is, field) ==
    IF is = {} THEN 0
    ELSE LET i == CHOOSE x \in is : TRUE
         IN  files[i][field] + SumOver(is \ {i}, field)

CountingCategories ==
    {"new-feature", "modified-logic", "refactoring", "deletion", "configuration"}

\* C11: the description of an entry reports the number of files of the entry,
\* the sums of linesAdded and linesRemoved over the files of that entry alone,
\* a singular noun for one file and a plural for more, and for testing and
\* documentation "added" exactly when a file of the entry is added (otherwise
\* "modified" for testing, "updated" for documentation).
C11_DescriptionOfGroup ==
    Categorized =>
        \A k \in 1..Len(changes) :
            LET d     == changes[k].description
                cat   == changes[k].category
                n     == Len(changes[k].files)
                added == \E i \in GroupOf(k) : files[i].changeType = "added"
            IN  /\ Cardinality(GroupOf(k)) = n
                /\ cat \in CountingCategories =>
                      /\ Contains(d, " file")
                      /\ NumberBefore(d, IF cat = "new-feature" THEN " new file"
                                                                 ELSE " file") = n
                      /\ Contains(d, " files") <=> n # 1
                /\ cat = "testing" =>
                      /\ StartsWith(d, "Tests ") <=> n # 1
                      /\ StartsWith(d, "Test ") <=> n = 1
                      /\ Contains(d, " added ") <=> added
                      /\ Contains(d, " modified ") <=> ~added
                /\ cat = "documentation" =>
                      d = IF added THEN "Documentation added" ELSE "Documentation updated"
                /\ cat \in {"new-feature", "modified-logic", "testing"} =>
                      /\ Contains(d, "+")
                      /\ NumberAfter(d, "+") = SumOver(GroupOf(k), "linesAdded")
                /\ cat \in {"modified-logic", "deletion", "testing"} =>
                      /\ Contains(d, "-")
                      /\ NumberAfter(d, "-") = SumOver(GroupOf(k), "linesRemoved")

\* two tests of different sizes, one of them added, beside a single new file
C11_Witness ==
    /\ Categorized
    /\ Len(changes) = 2
    /\ changes[1].category = "new-feature"
    /\ changes[1].description = "Added 1 new file (+12 lines)"
    /\ changes[2].category = "testing"
    /\ changes[2].description = "Tests added (+13/-40 lines)"

(***************************************************************************)
(* generateOverview and generateDiffSummary.                               *)
(***************************************************************************)
\* the same thresholds with inclusive upper ends
sizeDescriptor_Inclusive(totalLines) ==
    IF totalLines <= 50 THEN "small"
    ELSE IF totalLines <= 200 THEN "moderate"
    ELSE IF totalLines <= 500 THEN "substantial"
    ELSE "large"

sizeDescriptor(totalLines) ==
    IF totalLines < 50 THEN "small"
    ELSE IF totalLines < 200 THEN "moderate"
    ELSE IF totalLines < 500 THEN "substantial"
    ELSE "large"

generateOverview(st, fs, branchName, cs) ==
    LET fileCount  == Len(fs)
        inferred   == inferIntent(branchName, cs, fs)
        totalLines == st.linesAdded + st.linesRemoved
    IN  "A " \o sizeDescriptor(totalLines) \o " change across " \o ToString(fileCount)
            \o " file" \o (IF fileCount # 1 THEN "s" ELSE "")
            \o " to " \o toLowerCase(inferred) \o "."

\* a summary whose key files are not cut to the default limit
generateDiffSummary_AllKeyFiles(st, fs, branchName, cs) ==
    [overview       |-> generateOverview(st, fs, branchName, cs),
     changes        |-> categorizeChanges(fs),
     inferredIntent |-> inferIntent(branchName, cs, fs),
     keyFiles       |-> identifyKeyFiles(fs, Len(fs)),
     stats          |-> st,
     filesChanged   |-> [i \in 1..Len(fs) |-> fs[i].path]]

generateDiffSummary(st, fs, branchName, cs) ==
    [overview       |-> generateOverview(st, fs, branchName, cs),
     changes        |-> categorizeChanges(fs),
     inferredIntent |-> inferIntent(branchName, cs, fs),
     keyFiles       |-> identifyKeyFiles(fs, DefaultLimit),
     stats          |-> st,
     filesChanged   |-> [i \in 1..Len(fs) |-> fs[i].path]]

(***************************************************************************)
(* Inputs of generateOverview: totals on both sides of every threshold,    *)
(* independent of the line counts of the files.                            *)
(***************************************************************************)
OverviewStats ==
    [linesAdded : {0, 49, 50, 199, 200, 499, 500}, linesRemoved : {0, 1, 10}]

OverviewFiles ==
    {[path |-> "src/x.ts", changeType |-> "added", linesAdded |-> 600, linesRemoved |-> 0],
     [path |-> "README.md", changeType |-> "modified", linesAdded |-> 1, linesRemoved |-> 0],
     [path |-> "src/y.ts", changeType |-> "deleted", linesAdded |-> 0, linesRemoved |-> 5]}

OverviewBranches == {"main", "Feature/Login-Flow"}

InitOverview ==
    /\ files \in FileLists(MaxFiles, OverviewFiles)
    /\ limit = DefaultLimit
    /\ currentBranch \in OverviewBranches
    /\ commits \in CommitLists(1)
    /\ pc = "input"
    /\ changes = <<>>
    /\ keyFiles = <<>>
    /\ scored = <<>>
    /\ intent = ""
    /\ stats \in OverviewStats
    /\ overview = ""
    /\ summary = <<>>
    /\ previous = <<>>
    /\ StorageUnused

GenerateOverview ==
    /\ pc = "input"
    /\ overview' = generateOverview(stats, files, currentBranch, commits)
    /\ pc' = "generateOverview"
    /\ UNCHANGED <<analyzerVars, stats, summary, previous, storageVars>>

SpecOverview == InitOverview /\ [][GenerateOverview]_vars

(***************************************************************************)
(* Inputs of generateDiffSummary, and two calls on the same diff.          *)
(***************************************************************************)
SummaryStats == {[linesAdded |-> 10, linesRemoved |-> 2],
                 [linesAdded |-> 150, linesRemoved |-> 60]}

SummaryFiles == {f \in KeyFiles : f.linesAdded = 4}

InitSummary ==
    /\ files \in FileLists(MaxFiles - 1, SummaryFiles) \cup ManyFiles
    /\ limit = DefaultLimit
    /\ currentBranch \in OverviewBranches
    /\ commits \in CommitLists(1)
    /\ pc = "input"
    /\ changes = <<>>
    /\ keyFiles = <<>>
    /\ scored = <<>>
    /\ intent = ""
    /\ stats \in SummaryStats
    /\ overview = ""
    /\ summary = <<>>
    /\ previous = <<>>
    /\ StorageUnused

GenerateDiffSummary ==
    /\ pc = "input"
    /\ summary' = generateDiffSummary(stats, files, currentBranch, commits)
    /\ pc' = "generateDiffSummary"
    /\ UNCHANGED <<analyzerVars, stats, overview, previous, storageVars>>

\* the second call on the diff the first call was given
GenerateDiffSummaryAgain ==
    /\ pc = "generateDiffSummary"
    /\ previous' = summary
    /\ summary' = generateDiffSummary(stats, files, currentBranch, commits)
    /\ pc' = "generateDiffSummary again"
    /\ UNCHANGED <<analyzerVars, stats, overview, storageVars>>

SpecSummary == InitSummary /\ [][GenerateDiffSummary \/ GenerateDiffSummaryAgain]_vars

(***************************************************************************)
(* Properties of generateOverview.                                         *)
(***************************************************************************)
Overviewed == pc = "generateOverview"

SizeDescriptors == {"small", "moderate", "substantial", "large"}

\* the size descriptors the sentence starts with
DescriptorsOf(sentence) ==
    {w \in SizeDescriptors : StartsWith(sentence, "A " \o w \o " change across ")}

\* the buckets of the specification
Bucket(totalLines) ==
    CASE totalLines < 50                       -> "small"
      [] 50 <= totalLines /\ totalLines < 200  -> "moderate"
      [] 200 <= totalLines /\ totalLines < 500 -> "substantial"
      [] totalLines >= 500                     -> "large"

\* C12: the size descriptor is the bucket of stats.linesAdded +
\* stats.linesRemoved alone (60 is moderate), exactly one descriptor for every
\* total, and the noun is "file" exactly when one file changed.
C12_SizeDescriptorOfTotalLines ==
    Overviewed =>
        LET totalLines == stats.linesAdded + stats.linesRemoved
        IN  /\ DescriptorsOf(overview) = {Bucket(totalLines)}
            /\ totalLines = 60 => DescriptorsOf(overview) = {"moderate"}
            /\ NumberBefore(overview, " file") = Len(files)
            /\ Contains(overview, " file to ") <=> Len(files) = 1
            /\ Contains(overview, " files to ") <=> Len(files) # 1

\* a total of 60 with one changed file of 600 lines
C12_Witness ==
    /\ Overviewed
    /\ stats.linesAdded + stats.linesRemoved = 60
    /\ Len(files) = 1
    /\ files[1].linesAdded = 600
    /\ currentBranch = "main" /\ commits = <<>>
    /\ overview = "A moderate change across 1 file to add new functionality to the codebase."

(***************************************************************************)
(* Properties of generateDiffSummary.                                      *)
(***************************************************************************)
Summarized == pc \in {"generateDiffSummary", "generateDiffSummary again"}

\* s ends with suffix
HasSuffix(s, suffix) ==
    Len(s) >= Len(suffix) /\ MatchAt(s, suffix, Len(s) - Len(suffix) + 1)

Str(x) == [t |-> "string", s |-> x, n |-> 0, a |-> <<>>]

Num(x) == [t |-> "number", s |-> "", n |-> x, a |-> <<>>]

Null == [t |-> "null", s |-> "", n |-> 0, a |-> <<>>]

Undefined == [t |-> "undefined", s |-> "", n |-> 0, a |-> <<>>]

Arr(xs) == [t |-> "array", s |-> "", n |-> 0, a |-> xs]

\* an object from <<key, value>> pairs, the keys plain strings
Obj(pairs) ==
    [t |-> "object", s |-> "", n |-> 0,
     a |-> [i \in 1..2 * Len(pairs) |->
               IF i % 2 = 1 THEN Str(pairs[(i + 1) \div 2][1]) ELSE pairs[i \div 2][2]]]

\* the keys of an object
KeysOf(o) == {o.a[2 * i - 1].s : i \in 1..(Len(o.a) \div 2)}

\* o.key : the property's value, undefined when the object has no such property
Get(o, key) ==
    IF o.t = "object" /\ key \in KeysOf(o)
    THEN o.a[2 * (CHOOSE i \in 1..(Len(o.a) \div 2) : o.a[2 * i - 1].s = key)]
    ELSE Undefined

\* ToBoolean
Truthy(x) ==
    CASE x.t = "string" -> x.s # ""
      [] x.t = "number" -> x.n # 0
      [] x.t \in {"null", "undefined"} -> FALSE
      [] OTHER -> TRUE

(***************************************************************************)
(* JSON.stringify(value, null, 2).                                         *)
(***************************************************************************)
RECURSIVE Spaces(_)
Spaces(k) == IF k <= 0 THEN "" ELSE " " \o Spaces(k - 1)

\* the characters JSON escapes with a backslash, among those the model uses
Escaped == {"\"", "\\"}

RECURSIVE EscapeEach(_)
EscapeEach(x) ==
    IF x = "" THEN ""
    ELSE LET c == CharAt(x, 1)
         IN  (IF c \in Escaped THEN "\\" \o c ELSE c) \o EscapeEach(SubSeq(x, 2, Len(x)))

Escape(x) == IF \E i \in 1..Len(x) : CharAt(x, i) \in Escaped THEN EscapeEach(x) ELSE x

Quote(x) == "\"" \o Escape(x) \o "\""

\* the properties JSON.stringify writes: those whose value is not undefined
RECURSIVE Written(_)
Written(a) ==
    IF a = <<>> THEN <<>>
    ELSE IF a[2].t = "undefined" THEN Written(SubSeq(a, 3, Len(a)))
    ELSE <<a[1], a[2]>> \o Written(SubSeq(a, 3, Len(a)))

RECURSIVE Stringify(_, _)
RECURSIVE StringifyElements(_, _)
RECURSIVE StringifyMembers(_, _)
Stringify(x, indent) ==
    CASE x.t = "string" -> Quote(x.s)
      [] x.t = "number" -> ToString(x.n)
      [] x.t = "null" -> "null"
      [] x.t = "array" ->
            IF x.a = <<>> THEN "[]"
            ELSE "[\n" \o StringifyElements(x.a, indent + 2) \o "\n" \o Spaces(indent) \o "]"
      [] x.t = "object" ->
            IF Written(x.a) = <<>> THEN "{}"
            ELSE "{\n" \o StringifyMembers(Written(x.a), indent + 2)
                       \o "\n" \o Spaces(indent) \o "}"

\* an undefined element of an array is written as null
StringifyElements(a, indent) ==
    Spaces(indent) \o (IF a[1].t = "undefined" THEN "null" ELSE Stringify(a[1], indent))
        \o (IF Len(a) = 1 THEN "" ELSE ",\n" \o StringifyElements(Tail(a), indent))

StringifyMembers(a, indent) ==
    Spaces(indent) \o Quote(a[1].s) \o ": " \o Stringify(a[2], indent)
        \o (IF Len(a) = 2 THEN "" ELSE ",\n" \o StringifyMembers(SubSeq(a, 3, Len(a)), indent))

(***************************************************************************)
(* JSON.parse(text) for the texts the model reads: a parse step returns    *)
(* the value read and the position behind it.                              *)
(***************************************************************************)
Whitespace == {" ", "\n"}

\* the first position from i on that holds no whitespace
SkipWhitespace(text, i) ==
    CHOOSE j \in i..(Len(text) + 1) :
        /\ \A k \in i..(j - 1) : CharAt(text, k) \in Whitespace
        /\ j > Len(text) \/ CharAt(text, j) \notin Whitespace

\* the number of backslashes right in front of position j, none before i
BackslashesBefore(text, i, j) ==
    CHOOSE k \in 0..(j - i) :
        /\ \A m \in 1..k : CharAt(text, j - m) = "\\"
        /\ k = j - i \/ CharAt(text, j - k - 1) # "\\"

\* a quote that no backslash escapes
ClosesString(text, i, j) ==
    CharAt(text, j) = "\"" /\ BackslashesBefore(text, i, j) % 2 = 0

\* the text with each escaping backslash taken out
RECURSIVE Unescape(_)
Unescape(x) ==
    IF x = "" THEN ""
    ELSE IF CharAt(x, 1) = "\\" THEN CharAt(x, 2) \o Unescape(SubSeq(x, 3, Len(x)))
    ELSE CharAt(x, 1) \o Unescape(SubSeq(x, 2, Len(x)))

\* the string that starts behind the quote at i - 1
ParseString(text, i) ==
    LET end == CHOOSE j \in i..Len(text) :
                   /\ ClosesString(text, i, j)
                   /\ \A k \in i..(j - 1) : ~ClosesString(text, i, k)
        raw == SubSeq(text, i, end - 1)
    IN  [value |-> Str(IF \E k \in 1..Len(raw) : CharAt(raw, k) = "\\"
                       THEN Unescape(raw) ELSE raw),
         next  |-> end + 1]

JSONDigits == {"0", "1", "2", "3", "4", "5", "6", "7", "8", "9"}

\* the first position from i on that holds no digit
EndOfDigits(text, i) ==
    CHOOSE j \in i..(Len(text) + 1) :
        /\ \A k \in i..(j - 1) : CharAt(text, k) \in JSONDigits
        /\ j > Len(text) \/ CharAt(text, j) \notin JSONDigits

RECURSIVE DecimalValue(_, _)
DecimalValue(digits, value) ==
    IF digits = "" THEN value
    ELSE DecimalValue(SubSeq(digits, 2, Len(digits)),
                      10 * value + (CHOOSE d \in 0..9 : ToString(d) = CharAt(digits, 1)))

RECURSIVE ParseValue(_, _)
RECURSIVE ParseElements(_, _, _)
RECURSIVE ParseMembers(_, _, _)
ParseValue(text, at) ==
    LET i == SkipWhitespace(text, at)
        c == CharAt(text, i)
    IN  CASE c = "\"" -> ParseString(text, i + 1)
          [] c = "n" -> [value |-> Null, next |-> i + 4]
          [] c = "[" ->
                IF CharAt(text, SkipWhitespace(text, i + 1)) = "]"
                THEN [value |-> Arr(<<>>), next |-> SkipWhitespace(text, i + 1) + 1]
                ELSE ParseElements(text, i + 1, <<>>)
          [] c = "{" ->
                IF CharAt(text, SkipWhitespace(text, i + 1)) = "}"
                THEN [value |-> Obj(<<>>), next |-> SkipWhitespace(text, i + 1) + 1]
                ELSE ParseMembers(text, i + 1, <<>>)
          [] OTHER ->
                LET end == EndOfDigits(text, i)
                IN  [value |-> Num(DecimalValue(SubSeq(text, i, end - 1), 0)), next |-> end]

ParseElements(text, at, read) ==
    LET element == ParseValue(text, at)
        i       == SkipWhitespace(text, element.next)
    IN  IF CharAt(text, i) = ","
        THEN ParseElements(text, i + 1, Append(read, element.value))
        ELSE [value |-> Arr(Append(read, element.value)), next |-> i + 1]

ParseMembers(text, at, read) ==
    LET key    == ParseString(text, SkipWhitespace(text, at) + 1)
        colon  == SkipWhitespace(text, key.next)
        member == ParseValue(text, colon + 1)
        i      == SkipWhitespace(text, member.next)
        all    == read \o <<key.value, member.value>>
    IN  IF CharAt(text, i) = ","
        THEN ParseMembers(text, i + 1, all)
        ELSE [value |-> [t |-> "object", s |-> "", n |-> 0, a |-> all], next |-> i + 1]

JSONparse(text) == ParseValue(text, 1).value

JSONstringify(x) == Stringify(x, 0)

(***************************************************************************)
(* generateFilename.                                                       *)
(***************************************************************************)
UnsafeChars == {"/", "\\", ":", "*", "?", "\"", "<", ">", "|"}

\* .replace(/[\/\\:*?"<>|]/g, '-')
RECURSIVE replaceUnsafe(_)
replaceUnsafe(x) ==
    IF x = "" THEN ""
    ELSE (IF CharAt(x, 1) \in UnsafeChars THEN "-" ELSE CharAt(x, 1))
             \o replaceUnsafe(SubSeq(x, 2, Len(x)))

RECURSIVE DropLeadingDashes(_)
DropLeadingDashes(x) ==
    IF x # "" /\ CharAt(x, 1) = "-" THEN DropLeadingDashes(SubSeq(x, 2, Len(x))) ELSE x

RECURSIVE DropTrailingDashes(_)
DropTrailingDashes(x) ==
    IF x # "" /\ CharAt(x, Len(x)) = "-"
    THEN DropTrailingDashes(SubSeq(x, 1, Len(x) - 1)) ELSE x

\* a trim that forgets the trailing alternative
trimDashes_LeadingOnly(x) == DropLeadingDashes(x)

\* .replace(/^-+|-+$/g, '')
trimDashes(x) == DropTrailingDashes(DropLeadingDashes(x))

\* .replace(/-{2,}/g, '-')
RECURSIVE collapseDashes(_)
collapseDashes(x) ==
    IF Len(x) < 2 THEN x
    ELSE IF CharAt(x, 1) = "-" /\ CharAt(x, 2) = "-"
         THEN collapseDashes(SubSeq(x, 2, Len(x)))
         ELSE CharAt(x, 1) \o collapseDashes(SubSeq(x, 2, Len(x)))

\* a number written with at least the given number of digits
RECURSIVE Pad(_, _)
Pad(digits, width) == IF Len(digits) >= width THEN digits ELSE Pad("0" \o digits, width)

\* date.toISOString().split('T')[0], for the years 0 to 9999
toISODate(d) ==
    Pad(ToString(d.year), 4) \o "-" \o Pad(ToString(d.month), 2)
        \o "-" \o Pad(ToString(d.day), 2)

generateFilename(branchName, d) ==
    LET sanitized == collapseDashes(trimDashes(replaceUnsafe(branchName)))
        dateStr   == toISODate(d)
    IN  sanitized \o "_" \o dateStr \o ".json"

(***************************************************************************)
(* Inputs of generateFilename.                                             *)
(***************************************************************************)
BranchChars == {"a", "-", "/", "\\", "_"}

RECURSIVE Strings(_, _)
Strings(n, chars) ==
    IF n = 0 THEN {""}
    ELSE LET shorter == Strings(n - 1, chars)
         IN  shorter \cup {x \o c : x \in {y \in shorter : Len(y) = n - 1}, c \in chars}

BranchNames ==
    Strings(MaxBranchLen, BranchChars)
        \cup {"main", "feature/login-flow", "fix:a*b?c\"d<e>f|g", "release//2.0/"}

Dates == {[year |-> 2024, month |-> 1, day |-> 15],
          [year |-> 2026, month |-> 11, day |-> 3],
          [year |-> 987, month |-> 6, day |-> 5]}

InitFilename ==
    /\ pc = "input"
    /\ files = <<>>
    /\ limit = DefaultLimit
    /\ currentBranch = ""
    /\ commits = <<>>
    /\ changes = <<>>
    /\ keyFiles = <<>>
    /\ scored = <<>>
    /\ intent = ""
    /\ SummaryUnused
    /\ branch \in BranchNames
    /\ date \in Dates
    /\ results = <<>>
    /\ quizStats = <<>>
    /\ filename = ""
    /\ record = <<>>
    /\ json = ""
    /\ parsed = <<>>
    /\ error = ""
    /\ warning = ""

GenerateFilename ==
    /\ pc = "input"
    /\ filename' = generateFilename(branch, date)
    /\ pc' = "generateFilename"
    /\ UNCHANGED <<analyzerVars, summaryVars>>
    /\ UNCHANGED <<branch, date, results, quizStats, record, json, parsed, error, warning>>

SpecFilename == InitFilename /\ [][GenerateFilename]_vars

(***************************************************************************)
(* Properties of generateFilename.                                         *)
(***************************************************************************)
Named == pc = "generateFilename"

TailLength == Len("_YYYY-MM-DD.json")

\* the part of the file name in front of "_<date>.json"
SanitizedPart == SubSeq(filename, 1, Len(filename) - TailLength)

DatePart == SubSeq(filename, Len(filename) - TailLength + 2, Len(filename) - 5)

\* x without the characters of the set
RECURSIVE Without(_, _)
Without(x, chars) ==
    IF x = "" THEN ""
    ELSE (IF CharAt(x, 1) \in chars THEN "" ELSE CharAt(x, 1))
             \o Without(SubSeq(x, 2, Len(x)), chars)

IsDateText(x) ==
    /\ Len(x) = 10
    /\ \A i \in {1, 2, 3, 4, 6, 7, 9, 10} : CharAt(x, i) \in Digits
    /\ CharAt(x, 5) = "-" /\ CharAt(x, 8) = "-"

IsDebt_SkippedOnly(result) == Get(result, "status").s = "skipped"

\* r.status === 'skipped' || r.status === 'incorrect'
IsDebt(result) == Get(result, "status").s \in {"skipped", "incorrect"}

toVibeDebtQuestion(result) ==
    LET question == Get(result, "question")
    IN  Obj(<< <<"id", Get(question, "id")>>,
               <<"question", Get(question, "question")>>,
               <<"options", Get(question, "options")>>,
               <<"correctAnswer", Get(question, "correctAnswer")>>,
               <<"explanation", Get(question, "explanation")>>,
               <<"status", Get(result, "status")>>,
               <<"userAnswer", Get(result, "userAnswer")>>,
               <<"relatedFiles", Get(question, "relatedFiles")>>,
               <<"category", Get(question, "category")>> >>)

\* results.filter(...).map(toVibeDebtQuestion)
RECURSIVE debtQuestions(_)
debtQuestions(rs) ==
    IF rs = <<>> THEN <<>>
    ELSE (IF IsDebt(rs[1]) THEN <<toVibeDebtQuestion(rs[1])>> ELSE <<>>)
             \o debtQuestions(Tail(rs))

\* now : the date new Date() reads
createVibeDebtRecord(branchName, summ, rs, st, now) ==
    Obj(<< <<"branchName", Str(branchName)>>,
           <<"date", Str(toISODate(now))>>,
           <<"diffSummary",
             Obj(<< <<"overview", Str(summ.overview)>>,
                    <<"filesChanged",
                      Arr([i \in 1..Len(summ.filesChanged) |-> Str(summ.filesChanged[i])])>>,
                    <<"linesAdded", Num(summ.stats.linesAdded)>>,
                    <<"linesRemoved", Num(summ.stats.linesRemoved)>> >>)>>,
           <<"vibeDebt", Arr(debtQuestions(rs))>>,
           <<"stats", st>>,
           <<"schemaVersion", Num(1)>> >>)

serializeRecord(r) == JSONstringify(r)

MissingFields == "Invalid VibeDebtRecord: missing required fields"

\* what a call of parseRecord does: the Error it throws or the value it returns,
\* and the text it gives to console.warn
parseRecord(text) ==
    LET p       == JSONparse(text)
        version == Get(p, "schemaVersion")
    IN  IF \/ ~Truthy(Get(p, "branchName"))
           \/ ~Truthy(Get(p, "date"))
           \/ ~Truthy(Get(p, "vibeDebt"))
        THEN [thrown |-> MissingFields, returned |-> Undefined, warned |-> ""]
        ELSE [thrown   |-> "",
              returned |-> p,
              warned   |-> IF Truthy(version) /\ version.t = "number" /\ version.n > 1
                           THEN "VibeDebtRecord has newer schema version ("
                                    \o ToString(version.n)
                                    \o "). Some features may not work correctly."
                           ELSE ""]

(***************************************************************************)
(* Inputs of createVibeDebtRecord, and the record written and read back.   *)
(***************************************************************************)
Question(id, category) ==
    Obj(<< <<"id", Str(id)>>,
           <<"question", Str("Why was " \o id \o " changed?")>>,
           <<"options", Obj(<< <<"A", Str("a")>>, <<"B", Str("b")>>,
                               <<"C", Str("c")>>, <<"D", Str("d")>> >>)>>,
           <<"correctAnswer", Str("B")>>,
           <<"explanation", Str("see the diff")>>,
           <<"relatedFiles", Arr(<<Str("src/x.ts")>>)>>,
           <<"category", Str(category)>> >>)

Questions == {Question("q_why_1", "why"), Question("q_what_2", "what")}

\* status and userAnswer of a result
Answers == {<<"correct", Str("B")>>, <<"incorrect", Str("A")>>, <<"skipped", Null>>}

QuestionResults ==
    {Obj(<< <<"question", q>>, <<"status", Str(ans[1])>>, <<"userAnswer", ans[2]>> >>) :
        q \in Questions, ans \in Answers}

ResultLists(n) == UNION {[1..k -> QuestionResults] : k \in 0..n}

QuizStatsGiven ==
    {Obj(<< <<"totalQuestions", Num(5)>>, <<"correct", Num(2)>>, <<"incorrect", Num(1)>>,
            <<"skipped", Num(2)>>, <<"vibeDebtPercent", Num(60)>> >>)}

StoredSummaries ==
    {generateDiffSummary([linesAdded |-> 10, linesRemoved |-> 2], fs, "main", <<>>) :
        fs \in {<<>>,
                <<[path |-> "src/x.ts", changeType |-> "added",
                   linesAdded |-> 4, linesRemoved |-> 1]>>}}

StoredBranches == {"", "main", "feature/login-flow", "fix\"quoted\""}

StoredDates == {[year |-> 2024, month |-> 1, day |-> 15],
                [year |-> 987, month |-> 6, day |-> 5]}

InitStorage ==
    /\ pc = "input"
    /\ files = <<>>
    /\ limit = DefaultLimit
    /\ currentBranch = ""
    /\ commits = <<>>
    /\ changes = <<>>
    /\ keyFiles = <<>>
    /\ scored = <<>>
    /\ intent = ""
    /\ stats = NoStats
    /\ overview = ""
    /\ summary \in StoredSummaries
    /\ previous = <<>>
    /\ branch \in StoredBranches
    /\ date \in StoredDates
    /\ results \in ResultLists(MaxResults)
    /\ quizStats \in QuizStatsGiven
    /\ filename = ""
    /\ record = <<>>
    /\ json = ""
    /\ parsed = <<>>
    /\ error = ""
    /\ warning = ""

CreateVibeDebtRecord ==
    /\ pc = "input"
    /\ record' = createVibeDebtRecord(branch, summary, results, quizStats, date)
    /\ pc' = "createVibeDebtRecord"
    /\ UNCHANGED <<analyzerVars, summaryVars>>
    /\ UNCHANGED <<branch, date, results, quizStats, filename, json, parsed, error, warning>>

SerializeRecord ==
    /\ pc = "createVibeDebtRecord"
    /\ json' = serializeRecord(record)
    /\ pc' = "serializeRecord"
    /\ UNCHANGED <<analyzerVars, summaryVars>>
    /\ UNCHANGED <<branch, date, results, quizStats, filename, record, parsed, error, warning>>

ParseRecord ==
    /\ pc = "serializeRecord"
    /\ LET call == parseRecord(json)
       IN  /\ parsed' = call.returned
           /\ error' = call.thrown
           /\ warning' = call.warned
    /\ pc' = "parseRecord"
    /\ UNCHANGED <<analyzerVars, summaryVars>>
    /\ UNCHANGED <<branch, date, results, quizStats, filename, record, json>>

SpecStorage ==
    InitStorage /\ [][CreateVibeDebtRecord \/ SerializeRecord \/ ParseRecord]_vars

(***************************************************************************)
(* Inputs of parseRecord alone: the texts of objects with each required    *)
(* field absent, present and empty, or present and filled.                 *)
(***************************************************************************)
ParsedObjects ==
    {Obj(<< <<"branchName", name>>, <<"date", day>>, <<"vibeDebt", debt>>,
            <<"schemaVersion", version>> >>) :
        name \in {Undefined, Str(""), Str("main")},
        day \in {Undefined, Str(""), Str("2024-01-15")},
        debt \in {Undefined, Null, Arr(<<>>),
                  Arr(<<toVibeDebtQuestion(CHOOSE r \in QuestionResults : IsDebt(r))>>)},
        version \in {Undefined, Num(0), Num(1), Num(2)}}

StoredTexts == {JSONstringify(o) : o \in ParsedObjects}

InitParse ==
    /\ pc = "serializeRecord"
    /\ files = <<>>
    /\ limit = DefaultLimit
    /\ currentBranch = ""
    /\ commits = <<>>
    /\ changes = <<>>
    /\ keyFiles = <<>>
    /\ scored = <<>>
    /\ intent = ""
    /\ SummaryUnused
    /\ branch = ""
    /\ date = NoDate
    /\ results = <<>>
    /\ quizStats = <<>>
    /\ filename = ""
    /\ record = <<>>
    /\ json \in StoredTexts
    /\ parsed = <<>>
    /\ error = ""
    /\ warning = ""

SpecParse == InitParse /\ [][ParseRecord]_vars

(***************************************************************************)
(* Properties of createVibeDebtRecord.                                     *)
(***************************************************************************)
Created == pc \in {"createVibeDebtRecord", "serializeRecord", "parseRecord"} /\ record # <<>>

StatusOf(result) == Get(result, "status").s

\* the positions of the results that are skipped or incorrect
DebtPositions == {i \in 1..Len(results) : StatusOf(results[i]) \in {"skipped", "incorrect"}}

\* the position of the k-th of them
NthDebt(k) ==
    CHOOSE i \in DebtPositions : Cardinality({j \in DebtPositions : j <= i}) = k

\* C14: vibeDebt has one entry for each skipped or incorrect result and no
\* other, in the order of the results, each with the question id, the status
\* and the userAnswer of its result; stats and schemaVersion = 1 are stored
\* whatever became debt.
C14_VibeDebtIsSkippedOrIncorrect ==
    Created =>
        LET debt == Get(record, "vibeDebt").a
        IN  /\ Get(record, "vibeDebt").t = "array"
            /\ Len(debt) = Cardinality(DebtPositions)
            /\ \A k \in 1..Len(debt) :
                  /\ StatusOf(debt[k]) \in {"skipped", "incorrect"}
                  /\ k <= Cardinality(DebtPositions) =>
                        /\ Get(debt[k], "id") = Get(Get(results[NthDebt(k)], "question"), "id")
                        /\ Get(debt[k], "status") = Get(results[NthDebt(k)], "status")
                        /\ Get(debt[k], "userAnswer") = Get(results[NthDebt(k)], "userAnswer")
            /\ Get(record, "stats") = quizStats
            /\ Get(record, "schemaVersion") = Num(1)

\* a correct answer in front of an incorrect one: only the second becomes debt
C14_Witness ==
    /\ Created
    /\ Len(results) = 2
    /\ StatusOf(results[1]) = "correct"
    /\ StatusOf(results[2]) = "incorrect"
    /\ Len(Get(record, "vibeDebt").a) = 1
    /\ Get(Get(record, "vibeDebt").a[1], "id") = Str("q_what_2")
    /\ Get(Get(record, "vibeDebt").a[1], "userAnswer") = Str("A")

(***************************************************************************)
(* Properties of serializeRecord and parseRecord.                          *)
(***************************************************************************)
Parsed == pc = "parseRecord"

\* C16: for every record createVibeDebtRecord returns, an empty branch name
\* and an empty vibeDebt included, parseRecord(serializeRecord(r)) does not
\* throw and returns a record equal to r.
C16_RoundTrip ==
    (Parsed /\ record # <<>>) => (error = "" /\ parsed = record)

RequiredFields == {"branchName", "date", "vibeDebt"}

\* C17: parseRecord throws "Invalid VibeDebtRecord: missing required fields"
\* exactly for the parsed objects that lack branchName, date or vibeDebt, and
\* returns every other parsed object unchanged, whatever its schemaVersion.
C17_RejectsExactlyMissingFields ==
    Parsed =>
        LET p == JSONparse(json)
        IN  /\ error \in {"", MissingFields}
            /\ error = MissingFields <=> \E key \in RequiredFields : key \notin KeysOf(p)
            /\ error = "" => parsed = p

====
